---- MODULE Spec2Model ----
(***************************************************************************)
(* A model of waspnest's execution engine: the immutable State             *)
(* (core/state.py), the Skill base class and the @skill contract wrapper   *)
(* (core/skill.py), the Hooks event bus (hooks.py) and Agent.execute       *)
(* (core/agent.py).                                                        *)
(***************************************************************************)
EXTENDS Integers, Sequences, FiniteSets, TLC

\* ------------------------------------------------------------------------
\* Bounds of the model
\* ------------------------------------------------------------------------
\* largest explicit max_steps argument tried (the default is tried as well)
MaxSteps == 1
\* largest number of Hooks.on registrations before a run
MaxHooks == 2
\* depth of nested Hooks.trigger calls at which the interpreter raises
\* RecursionError (sys.getrecursionlimit(), scaled down)
RecursionLimit == 3

\* default of Agent.execute's max_steps parameter
DefaultMaxSteps == 10

\* ------------------------------------------------------------------------
\* Payload types (pydantic models and one non-model type)
\* ------------------------------------------------------------------------
\* the classes a value of each runtime type is an instance of
Mro(t) ==
  CASE t = "Query"         -> {"Query", "BaseModel"}
    [] t = "DetailedQuery" -> {"DetailedQuery", "Query", "BaseModel"}
    [] t = "Analysis"      -> {"Analysis", "BaseModel"}
    [] t = "Response"      -> {"Response", "BaseModel"}
    [] t = "SimpleResponse"   -> {"SimpleResponse", "BaseModel"}
    [] t = "DetailedResponse" -> {"DetailedResponse", "BaseModel"}
    [] OTHER               -> {t}

\* Python's isinstance(value, cls) for a value of runtime type t
IsInstance(t, cls) == cls \in Mro(t)

\* isinstance(value, (cls1, cls2, ...))
IsInstanceOfAny(t, classes) ==
  \E j \in 1..Len(classes) : IsInstance(t, classes[j])

\* ------------------------------------------------------------------------
\* Dictionaries and the heap of dict objects
\* ------------------------------------------------------------------------
EmptyDict == [k \in {} |-> 0]

\* a merge in which the keys already present keep their values
Merge_old_wins(c, u) ==
  [k \in (DOMAIN c) \cup (DOMAIN u) |-> IF k \in DOMAIN c THEN c[k] ELSE u[k]]

\* {**c, **u}
Merge(c, u) ==
  [k \in (DOMAIN c) \cup (DOMAIN u) |-> IF k \in DOMAIN u THEN u[k] ELSE c[k]]

\* A heap is the sequence of the dict objects allocated so far; a reference
\* is a position in it.  NoneRef is Python's None where a dict is expected.
NoneRef == 0

\* bool(x) is False for None and for an empty dict
Falsy(h, r) == r = NoneRef \/ DOMAIN h[r] = {}

\* ------------------------------------------------------------------------
\* State (core/state.py)
\* ------------------------------------------------------------------------
\* State(data, metadata, context) followed by __post_init__: a falsy
\* argument is replaced by a fresh {}
NewState(h, data, metadata, context) ==
  LET h1 == IF Falsy(h, metadata) THEN Append(h, EmptyDict) ELSE h
      m  == IF Falsy(h, metadata) THEN Len(h1) ELSE metadata
      h2 == IF Falsy(h1, context) THEN Append(h1, EmptyDict) ELSE h1
      c  == IF Falsy(h1, context) THEN Len(h2) ELSE context
  IN [heap |-> h2, state |-> [data |-> data, metadata |-> m, context |-> c]]

\* with_context letting the old context win over the updates
with_context_old_wins(h, s, updates) ==
  LET h1 == Append(h, Merge(updates, h[s.context]))
      h2 == Append(h1, h1[s.metadata])
  IN NewState(h2, s.data, Len(h2), Len(h1))

\* with_context updating the context dict of self in place
with_context_in_place(h, s, updates) ==
  [heap |-> [h EXCEPT ![s.context] = Merge(@, updates)], state |-> s]

\* State.with_context(**updates): a new context dict, a copy of metadata
with_context_drops_metadata(h, s, updates) ==
  LET c == Append(h, Merge(h[s.context], updates))
      m == Append(c, EmptyDict)
  IN [heap |-> m,
      state |-> [data |-> s.data, metadata |-> Len(m), context |-> Len(c)]]

with_context(h, s, updates) ==
  LET h1 == Append(h, Merge(h[s.context], updates))
      h2 == Append(h1, h1[s.metadata])
  IN NewState(h2, s.data, Len(h2), Len(h1))

\* placeholders for absent values in uniformly shaped records
NoData  == [type |-> "NoneType", text |-> <<>>]
NoState == [data |-> NoData, metadata |-> NoneRef, context |-> NoneRef]
NoExc   == [type |-> "NoneType", msg |-> <<>>, origin |-> "none"]

\* ------------------------------------------------------------------------
\* Exceptions: the class, str(e) as a sequence of words, and who raised it
\* ------------------------------------------------------------------------
Exc(type, msg, origin) == [type |-> type, msg |-> msg, origin |-> origin]

\* str(e)
str(e) == e.msg

\* ------------------------------------------------------------------------
\* Skills (core/skill.py)
\* ------------------------------------------------------------------------
\* what the body of an execute method does in one call
Ret(out, keep_context, keep_metadata) ==
  [kind |-> "return", out |-> out,
   keep_context |-> keep_context, keep_metadata |-> keep_metadata]
Raises     == [kind |-> "raise", out |-> "NoneType",
               keep_context |-> FALSE, keep_metadata |-> FALSE]
RetNone    == [kind |-> "none", out |-> "NoneType",
               keep_context |-> FALSE, keep_metadata |-> FALSE]
RetNoState == [kind |-> "nonstate", out |-> "dict",
               keep_context |-> FALSE, keep_metadata |-> FALSE]

\* a Skill subclass instance; typed = its execute is decorated with @skill
SkillDef(name, typed, input_type, output_types, body) ==
  [name |-> name, typed |-> typed, input_type |-> input_type,
   output_types |-> output_types, body |-> body]

\* tests/conftest.py: return State(data=result, context=state.context,
\* metadata=state.metadata)
AnalyzerSkill  == SkillDef("AnalyzerSkill", TRUE, "Query", <<"Analysis">>,
                           {Ret("Analysis", TRUE, TRUE)})
ResponderSkill == SkillDef("ResponderSkill", TRUE, "Analysis", <<"Response">>,
                           {Ret("Response", TRUE, TRUE)})
\* tests/test_agent.py: raise ValueError("Test error")
ErrorSkill     == SkillDef("ErrorSkill", TRUE, "Query", <<"Response">>,
                           {Raises})
\* examples/simple.py: return State(result)
QueryAnalyzer  == SkillDef("QueryAnalyzer", TRUE, "Query", <<"Analysis">>,
                           {Ret("Analysis", FALSE, FALSE)})
\* examples/complex_hook.py: State[SimpleResponse | DetailedResponse],
\* return State(result, context=state.context); the reasoning call may fail
SmartAnswerSkill == SkillDef("SmartAnswerSkill", TRUE, "Query",
                             <<"SimpleResponse", "DetailedResponse">>,
                             {Ret("SimpleResponse", TRUE, FALSE),
                              Ret("DetailedResponse", TRUE, FALSE), Raises})
\* a @skill whose body breaks its declared return type
Mislabelled    == SkillDef("Mislabelled", TRUE, "Query", <<"Analysis">>,
                           {Ret("Response", TRUE, TRUE), RetNoState})
\* Skill subclasses that override execute without @skill
PassThrough    == SkillDef("PassThrough", FALSE, "NoneType", <<>>,
                           {Ret("same", TRUE, TRUE)})
Silent         == SkillDef("Silent", FALSE, "NoneType", <<>>, {RetNone})

\* results of a call, uniformly shaped; body tells whether the body of an
\* execute method ran during the call
Returned(h, s)  == [kind |-> "state", heap |-> h, state |-> s, exc |-> NoExc,
                    body |-> FALSE]
ReturnedNone(h) == [kind |-> "none", heap |-> h, state |-> NoState,
                    exc |-> NoExc, body |-> FALSE]
ReturnedNoState(h) == [kind |-> "nonstate", heap |-> h, state |-> NoState,
                       exc |-> NoExc, body |-> FALSE]
Raised(h, e)    == [kind |-> "raise", heap |-> h, state |-> NoState,
                    exc |-> e, body |-> FALSE]

\* the State a body builds for outcome o on state s
BodyState(sk, h, s, o) ==
  LET r == NewState(h,
             [type |-> IF o.out = "same" THEN s.data.type ELSE o.out,
              text |-> Append(s.data.text, sk.name)],
             IF o.keep_metadata THEN s.metadata ELSE NoneRef,
             IF o.keep_context THEN s.context ELSE NoneRef)
  IN Returned(r.heap, r.state)

\* func(self, state): the undecorated body
func(sk, h, s, o) ==
  LET r == CASE o.kind = "return"   -> BodyState(sk, h, s, o)
             [] o.kind = "none"     -> ReturnedNone(h)
             [] o.kind = "nonstate" -> ReturnedNoState(h)
             [] OTHER -> Raised(h, Exc("ValueError",
                                       <<"Test error", sk.name>>, "skill"))
  IN [r EXCEPT !.body = TRUE]

\* the names in "Output must be ..." : one name, or "one of:" and the names
ExpectedNames(output_types) ==
  IF Len(output_types) = 1
  THEN <<output_types[1]>>
  ELSE <<"one of:">> \o output_types

\* a wrapper that does not compare the input with the declared input type
wrapper_no_input_check(sk, h, s, o) ==
  LET result == func(sk, h, s, o) IN
    IF result.kind = "state"
       /\ ~IsInstanceOfAny(result.state.data.type, sk.output_types)
    THEN [Raised(result.heap, Exc("TypeError",
            <<"Output must be">> \o ExpectedNames(sk.output_types)
              \o <<"got", result.state.data.type>>, "contract"))
          EXCEPT !.body = TRUE]
    ELSE result

\* the wrapper the @skill decorator puts around func
wrapper(sk, h, s, o) ==
  IF ~IsInstance(s.data.type, "BaseModel")
  THEN Raised(h, Exc("TypeError",
         <<"Input must be a Pydantic model, got", s.data.type>>, "contract"))
  ELSE IF ~IsInstance(s.data.type, sk.input_type)
  THEN Raised(h, Exc("TypeError",
         <<"Expected input type", sk.input_type, "got", s.data.type>>,
         "contract"))
  ELSE LET result == func(sk, h, s, o)
           invalid(e) == [Raised(result.heap, e) EXCEPT !.body = TRUE]
       IN
    CASE result.kind = "raise" -> result
      [] result.kind \in {"none", "nonstate"} ->
           invalid(Exc("TypeError",
             <<"Skill must return a State, got", result.kind>>, "contract"))
      [] ~IsInstance(result.state.data.type, "BaseModel") ->
           invalid(Exc("TypeError",
             <<"Output must be a Pydantic model, got",
               result.state.data.type>>, "contract"))
      [] ~IsInstanceOfAny(result.state.data.type, sk.output_types) ->
           invalid(Exc("TypeError",
             <<"Output must be">> \o ExpectedNames(sk.output_types)
               \o <<"got", result.state.data.type>>, "contract"))
      [] OTHER -> result

\* skill.execute(state): decorated or plain
execute(sk, h, s, o) ==
  IF sk.typed THEN wrapper(sk, h, s, o) ELSE func(sk, h, s, o)

\* can_handle comparing type(state.data) with the input type
can_handle_exact(sk, s) ==
  IF sk.typed THEN s.data.type = sk.input_type ELSE TRUE

\* Skill.can_handle(state)
can_handle(sk, s) ==
  IF sk.typed THEN IsInstance(s.data.type, sk.input_type) ELSE TRUE

\* ------------------------------------------------------------------------
\* Inputs
\* ------------------------------------------------------------------------
\* skill lists an Agent is constructed with
SkillLists ==
  { <<>>,
    <<AnalyzerSkill, ResponderSkill>>,
    <<ErrorSkill>>,
    <<ErrorSkill, Mislabelled, AnalyzerSkill, ResponderSkill>>,
    <<ErrorSkill, QueryAnalyzer, ResponderSkill>>,
    <<SmartAnswerSkill, AnalyzerSkill>>,
    <<Silent, AnalyzerSkill>>,
    <<PassThrough, AnalyzerSkill>> }

\* clients: instructor's client offers on(); a plain client does not
Clients == {"instructor", "plain"}

\* model ids: the default of Agent.__init__ and another one
DefaultModel == "gpt-4o-mini"
Models == {DefaultModel, "gpt-4o"}

\* the arguments Agent(...) is constructed with
Agents ==
  { [skills |-> sl, client |-> cl, model |-> DefaultModel] :
      sl \in SkillLists, cl \in Clients }
  \cup { [skills |-> <<AnalyzerSkill, ResponderSkill>>,
          client |-> "instructor", model |-> m] : m \in Models }

\* every skill of the lists above, for calls made on a skill alone
Catalogue == UNION { { sl[i] : i \in 1..Len(sl) } : sl \in SkillLists }

\* a second Agent constructed with skills of the first one
SecondAgents ==
  { [skills |-> <<sk>>, client |-> "instructor", model |-> "gpt-4o"] :
      sk \in {QueryAnalyzer, SmartAnswerSkill} }

\* no second agent
NoAgent == [client |-> "", model |-> "", skills |-> <<>>, requests |-> <<>>]

\* the arguments State(...) is built from by the caller; None for an
\* argument that is not given
None == [None |-> TRUE]
Args(type, text, metadata, context) ==
  [data |-> [type |-> type, text |-> <<text>>],
   metadata |-> metadata, context |-> context]
SampleState   == Args("Query", "test query", [source |-> "test"],
                      [user_id |-> "123"])
StampedState  == Args("Query", "again", [source |-> "rerun"],
                      [user_id |-> "456", max_steps |-> 99, total_steps |-> 5])
DetailedState == Args("DetailedQuery", "explain", None,
                      [user_id |-> "456", priority |-> "low"])
AnalysisState == Args("Analysis", "analysed", None, [priority |-> "high"])
\* a State whose data is not a pydantic model
RawState      == Args("str", "raw", None, None)

\* states a skill's execute is called with directly
DirectStates == {SampleState, DetailedState, AnalysisState, RawState}

\* arguments of Skill.ask: the prompt, the response model, and the system
\* prompt: not given, the empty string, or a text
Prompts == {"test prompt"}
ResponseModels == {"Response"}
SystemPrompts == {None, [text |-> ""], [text |-> "test system"]}

\* the context argument of Agent.execute
ExtraContext == [user_id |-> "789", session_id |-> "abc", max_steps |-> 77]

\* keyword arguments of a direct with_context call
Updates == {ExtraContext, [session_id |-> "abc"]}

\* calls of Agent.execute: initial_state and context
Call(s0, context) == [initial_state |-> s0, context |-> context]
NoCall == Call(Args("NoneType", "", None, None), None)
Calls == { Call(SampleState, None), Call(StampedState, None),
           Call(DetailedState, ExtraContext), Call(AnalysisState, None) }

\* the caller's State(data, metadata=..., context=...): the dicts given are
\* objects of the caller
Construct(h, a) ==
  LET h1 == IF a.metadata = None THEN h ELSE Append(h, a.metadata)
      m  == IF a.metadata = None THEN NoneRef ELSE Len(h1)
      h2 == IF a.context = None THEN h1 ELSE Append(h1, a.context)
      c  == IF a.context = None THEN NoneRef ELSE Len(h2)
  IN NewState(h2, a.data, m, c)

\* the max_steps argument of Agent.execute
StepLimits == (0..MaxSteps) \cup {DefaultMaxSteps}

\* ------------------------------------------------------------------------
\* Skill.ask (core/skill.py)
\* ------------------------------------------------------------------------
\* the messages Skill.ask builds
messages(prompt, system_prompt) ==
  (IF system_prompt # None /\ system_prompt.text # ""
   THEN <<[role |-> "system", content |-> system_prompt.text]>>
   ELSE <<>>)
  \o <<[role |-> "user", content |-> prompt]>>

\* Skill.ask that sends a system message whenever the argument is not None
ask_any_system_prompt(attached, m, prompt, response_model, system_prompt) ==
  IF ~attached
  THEN [raised |-> TRUE, requests |-> <<>>]
  ELSE [raised |-> FALSE,
        requests |-> << [model |-> m,
                         messages |->
                           (IF system_prompt # None
                            THEN <<[role |-> "system",
                                    content |-> system_prompt.text]>>
                            ELSE <<>>)
                           \o <<[role |-> "user", content |-> prompt]>>,
                         response_model |-> response_model] >>]

\* Skill.ask(prompt, response_model, system_prompt) on a skill whose agent
\* is set (attached) to an agent with model m, or is None: whether it
\* raises, and the calls of client.chat.completions.create it makes
ask(attached, m, prompt, response_model, system_prompt) ==
  IF ~attached
  THEN [raised |-> TRUE, requests |-> <<>>]
  ELSE [raised |-> FALSE,
        requests |-> << [model |-> m,
                         messages |-> messages(prompt, system_prompt),
                         response_model |-> response_model] >>]

\* the skills whose execute body calls self.ask (examples/simple.py,
\* examples/complex_hook.py), with the system prompt they give
Asks(sk) == sk.name \in {"QueryAnalyzer", "SmartAnswerSkill"}
BodySystemPrompt == [text |-> "Analyze the query"]

\* for skill in skills: skill.agent = self, for the agent numbered id
attach_once(sa, sl, id) ==
  [n \in DOMAIN sa |->
     IF sa[n] = 0 /\ \E i \in 1..Len(sl) : sl[i].name = n
     THEN id ELSE sa[n]]

attach(sa, sl, id) ==
  [n \in DOMAIN sa |->
     IF \E i \in 1..Len(sl) : sl[i].name = n THEN id ELSE sa[n]]

\* ------------------------------------------------------------------------
\* Hooks (hooks.py)
\* ------------------------------------------------------------------------
HookPoint ==
  {"pre_execute", "post_execute", "skill_start", "skill_end", "error",
   "llm_request"}

\* keyword arguments of a trigger, uniformly shaped
Kw(keys, state, skill, exception, hook) ==
  [keys |-> keys, state |-> state, skill |-> skill,
   exception |-> exception, hook |-> hook]

\* callbacks: log(**kwargs) returns (a Mock, or sample_hook of
\* tests/test_agent.py); error_hook(**kwargs) always raises
\* (tests/test_hooks.py); log_error(exception, skill, state) of
\* examples/complex_hook.py accepts exactly these keyword arguments
Callbacks == {"log", "error_hook", "log_error"}
CallbackRaises(cb, kwargs) ==
  \/ cb = "error_hook"
  \/ cb = "log_error" /\ kwargs.keys # {"exception", "skill", "state"}

\* the Hooks.on calls made: log and error_hook at any point, log_error at
\* ERROR, where examples/complex_hook.py registers it
Registrations ==
  { r \in HookPoint \X Callbacks : r[2] = "log_error" => r[1] = "error" }

\* the exception a failing callback raises
HookError(cb) ==
  IF cb = "error_hook"
  THEN Exc("ValueError", <<"Hook error">>, "hook")
  ELSE Exc("TypeError", <<"unexpected or missing keyword argument">>, "hook")

RecursionError ==
  Exc("RecursionError", <<"maximum recursion depth exceeded">>, "recursion")

\* an entry of the observation log
Ev(ev, point, cb, skill, kwargs, res) ==
  [ev |-> ev, point |-> point, cb |-> cb, skill |-> skill,
   kwargs |-> kwargs, res |-> res]

VARIABLES
  pc,             \* where the caller / Agent.execute is
  client,         \* Agent.client
  model,          \* Agent.model
  requests,       \* the calls client.chat.completions.create received
  skill_agent,    \* Skill.agent of each skill: 0 (None), 1 or 2
  second,         \* the second agent, its client's calls included
  skills,         \* Agent.skills
  hooks,          \* Hooks.hooks: point -> list of callbacks
  heap,           \* the dict objects allocated so far
  call,           \* the arguments of the call being made
  initial_state,  \* execute's initial_state argument
  max_steps,      \* execute's max_steps argument
  current_state,  \* execute's local current_state
  steps,          \* execute's local steps
  executed,       \* execute's local executed
  idx,            \* position of the for loop in self.skills (1-based)
  stack,          \* active Hooks.trigger calls, innermost last
  trig_exc,       \* exception leaving the outermost trigger call, or NoExc
  result,         \* what the call returned or raised
  events,         \* observation log: triggers, callbacks, skill calls
  clock           \* datetime.now()

vars == <<pc, client, model, requests, skill_agent, second, skills, hooks,
          heap, call, initial_state, max_steps,
          current_state, steps, executed, idx, stack, trig_exc, result,
          events, clock>>

\* the constructed agent and what its client was asked
agent == <<client, model, requests, skill_agent, second, skills, hooks>>

\* the agent apart from the calls its skills make
wiring == <<client, model, skill_agent, skills, hooks>>

\* Hooks.__init__
NoHooks == [point \in HookPoint |-> <<>>]

\* total number of registrations
NumRegistered(h) ==
  Len(h["pre_execute"]) + Len(h["post_execute"]) + Len(h["skill_start"])
  + Len(h["skill_end"]) + Len(h["error"]) + Len(h["llm_request"])

\* one active call of Hooks.trigger: the for loop is at hooks[point][i]
Frame(point, kwargs) == [point |-> point, i |-> 1, kwargs |-> kwargs]

\* frames whose for loop is over return to their caller
RECURSIVE Settle(_, _)
Settle(h, st) ==
  IF st = <<>> THEN st
  ELSE IF st[Len(st)].i > Len(h[st[Len(st)].point])
       THEN Settle(h, SubSeq(st, 1, Len(st) - 1))
       ELSE st

\* the for loop of the innermost call moves to the next callback
Advance(st) == [st EXCEPT ![Len(st)].i = @ + 1]

\* Hooks.trigger(point, **kwargs) called while no trigger is active
CallTrigger(point, kwargs) ==
  /\ events' = Append(events, Ev("trigger", point, "", "", kwargs, ""))
  /\ stack' = Settle(hooks, <<Frame(point, kwargs)>>)
  /\ trig_exc' = NoExc

Init ==
  /\ pc = "new"
  /\ client = ""
  /\ model = ""
  /\ requests = <<>>
  /\ skill_agent = [n \in {sk.name : sk \in Catalogue} |-> 0]
  /\ second = NoAgent
  /\ skills = <<>>
  /\ hooks = NoHooks
  /\ heap = <<>>
  /\ call = NoCall
  /\ initial_state = NoState
  /\ max_steps = 0
  /\ current_state = NoState
  /\ steps = 0
  /\ executed = FALSE
  /\ idx = 0
  /\ stack = <<>>
  /\ trig_exc = NoExc
  /\ result = ReturnedNone(<<>>)
  /\ events = <<>>
  /\ clock = 0

\* what no action of the caller between two calls changes
run_locals == <<heap, call, initial_state, max_steps, current_state, steps,
                executed, idx, clock>>

\* the locals of a run other than the arguments of the call
run_locals_but_call == <<heap, initial_state, max_steps, current_state, steps,
                         executed, idx, clock>>

\* Agent.__init__(skills, client, model)
AgentInit(sl, cl, m) ==
  /\ pc = "new"
  /\ skills' = sl
  /\ client' = cl
  /\ model' = m
  /\ IF cl = "instructor"
     THEN /\ pc' = "ready" /\ result' = result
          /\ skill_agent' = attach(skill_agent, sl, 1)
     ELSE /\ pc' = "init_raised"
          /\ skill_agent' = skill_agent
          /\ result' = Raised(heap, Exc("AttributeError",
                                 <<"object has no attribute", "on">>,
                                 "client"))
  /\ UNCHANGED <<hooks, requests, second, run_locals, stack, trig_exc,
                 events>>

\* Agent(skills, client, model) a second time, with skills that the first
\* agent has
SecondAgentInit(a) ==
  /\ pc = "ready"
  /\ second = NoAgent
  /\ \A i \in 1..Len(a.skills) :
       \E j \in 1..Len(skills) : skills[j] = a.skills[i]
  /\ second' = [client |-> a.client, model |-> a.model,
                skills |-> a.skills, requests |-> <<>>]
  /\ skill_agent' = attach(skill_agent, a.skills, 2)
  /\ UNCHANGED <<pc, client, model, requests, skills, hooks, run_locals,
                 stack, trig_exc, result, events>>

\* an on that replaces the callbacks of the point
On_replaces(point, cb) ==
  /\ pc = "ready"
  /\ NumRegistered(hooks) < MaxHooks
  /\ hooks' = [hooks EXCEPT ![point] = <<cb>>]
  /\ UNCHANGED <<pc, client, model, requests, skill_agent, second, skills,
                 run_locals, stack, trig_exc, result, events>>

\* Hooks.on(point, callback)
On(point, cb) ==
  /\ pc = "ready"
  /\ NumRegistered(hooks) < MaxHooks
  /\ hooks' = [hooks EXCEPT ![point] = Append(@, cb)]
  /\ UNCHANGED <<pc, client, model, requests, skill_agent, second, skills,
                 run_locals, stack, trig_exc, result, events>>

\* the callback the innermost trigger call is about to invoke
TopFrame == stack[Len(stack)]
TopCallback == hooks[TopFrame.point][TopFrame.i]

\* hook(**kwargs) returns
HookReturns ==
  /\ stack # <<>>
  /\ ~CallbackRaises(TopCallback, TopFrame.kwargs)
  /\ events' = Append(events, Ev("callback", TopFrame.point, TopCallback, "",
                                 TopFrame.kwargs, "returned"))
  /\ stack' = Settle(hooks, Advance(stack))
  /\ UNCHANGED <<pc, agent, run_locals, trig_exc, result>>

\* hook(**kwargs) raises: except Exception as e: self.trigger(ERROR, ...)
HookRaises ==
  /\ stack # <<>>
  /\ CallbackRaises(TopCallback, TopFrame.kwargs)
  /\ Len(stack) < RecursionLimit
  /\ LET e  == HookError(TopCallback)
         kw == Kw({"exception", "hook"}, NoState, "", e, TopCallback)
     IN /\ events' = events \o
             << Ev("callback", TopFrame.point, TopCallback, "",
                   TopFrame.kwargs, "raised"),
                Ev("trigger", "error", "", "", kw, "") >>
        /\ stack' = Settle(hooks, Append(Advance(stack), Frame("error", kw)))
  /\ UNCHANGED <<pc, agent, run_locals, trig_exc, result>>

\* hook(**kwargs) raises at the recursion limit: the nested self.trigger
\* raises RecursionError inside the except block of every active call
HookOverflows ==
  /\ stack # <<>>
  /\ CallbackRaises(TopCallback, TopFrame.kwargs)
  /\ Len(stack) >= RecursionLimit
  /\ events' = Append(events, Ev("callback", TopFrame.point, TopCallback, "",
                                 TopFrame.kwargs, "raised"))
  /\ stack' = <<>>
  /\ trig_exc' = RecursionError
  /\ UNCHANGED <<pc, agent, run_locals, result>>

\* the caller is between two Hooks.trigger calls
Idle == stack = <<>> /\ trig_exc = NoExc

\* hooks.trigger(point, state=...) called directly
DirectTrigger(point) ==
  /\ pc = "ready"
  /\ pc' = "trigger"
  /\ CallTrigger(point, Kw({"state"}, NoState, "", NoExc, ""))
  /\ UNCHANGED <<agent, run_locals, result>>

\* the direct call returns
DirectReturn ==
  /\ pc = "trigger" /\ Idle
  /\ pc' = "triggered"
  /\ UNCHANGED <<agent, run_locals, stack, trig_exc, result, events>>

\* state.with_context(**updates) called directly
DirectWithContext(a, updates) ==
  /\ pc = "ready"
  /\ LET s == Construct(heap, a)
         r == with_context(s.heap, s.state, updates)
     IN /\ initial_state' = s.state
        /\ heap' = r.heap
        /\ result' = Returned(r.heap, r.state)
  /\ call' = Call(a, updates)
  /\ pc' = "with_context_done"
  /\ UNCHANGED <<agent, max_steps, current_state, steps, executed, idx, stack,
                 trig_exc, events, clock>>

\* the exception of Skill.ask on a skill without agent
NotAttached ==
  Exc("RuntimeError", <<"Skill must be attached to an agent">>, "ask")

\* skill.execute(state) called directly on a skill that has no agent: a
\* body that calls self.ask raises there
DirectExecute(sk, a) ==
  /\ pc = "new"
  /\ \E o \in sk.body :
       LET s == Construct(heap, a)
           y == execute(sk, s.heap, s.state, o)
           x == IF y.body /\ Asks(sk) /\ skill_agent[sk.name] = 0
                THEN [Raised(s.heap, NotAttached) EXCEPT !.body = TRUE]
                ELSE y
       IN /\ initial_state' = s.state
          /\ heap' = x.heap
          /\ result' = x
  /\ call' = [skill |-> sk, initial_state |-> a]
  /\ pc' = "executed"
  /\ UNCHANGED <<agent, max_steps, current_state, steps, executed, idx, stack,
                 trig_exc, events, clock>>

\* the value the client returns for a request
Completion(response_model) ==
  [Returned(heap, [NoState EXCEPT !.data =
      [type |-> response_model, text |-> <<"test response">>]])
   EXCEPT !.kind = "model"]

\* skill.ask(prompt, response_model, system_prompt): on a skill that has no
\* agent (no Agent constructed yet) or on a skill of the agent
Ask(prompt, response_model, system_prompt) ==
  /\ \/ pc = "new"
     \/ pc = "ready" /\ skills # <<>> /\ second = NoAgent
  /\ LET r == ask(pc = "ready", model, prompt, response_model, system_prompt)
     IN /\ requests' = requests \o r.requests
        /\ result' = IF r.raised THEN Raised(heap, NotAttached)
                      ELSE Completion(response_model)
  /\ call' = [prompt |-> prompt, response_model |-> response_model,
              system_prompt |-> system_prompt, attached |-> pc = "ready"]
  /\ pc' = "asked"
  /\ UNCHANGED <<client, model, skill_agent, second, skills, hooks,
                 run_locals_but_call, stack, trig_exc, events>>

\* ------------------------------------------------------------------------
\* Agent.execute (core/agent.py)
\* ------------------------------------------------------------------------
\* lines 36-44: merge context, stamp, trigger PRE_EXECUTE
Execute(c, ms) ==
  /\ pc = "ready"
  /\ LET s0 == Construct(heap, c.initial_state)
         c1 == IF c.context # None /\ DOMAIN c.context # {}
               THEN with_context(s0.heap, s0.state, c.context) ELSE s0
         c2 == with_context(c1.heap, c1.state,
                            [execution_started_at |-> clock,
                             max_steps |-> ms])
     IN /\ initial_state' = s0.state
        /\ current_state' = c2.state
        /\ heap' = c2.heap
        /\ CallTrigger("pre_execute", Kw({"state"}, s0.state, "", NoExc, ""))
  /\ call' = c
  /\ max_steps' = ms
  /\ clock' = clock + 1
  /\ steps' = 0
  /\ pc' = "loop"
  /\ UNCHANGED <<agent, executed, idx, result>>

\* lines 100-104: stamp completion, trigger POST_EXECUTE
Finalize ==
  /\ LET r == with_context(heap, current_state,
                           [execution_completed_at |-> clock,
                            total_steps |-> steps])
     IN /\ current_state' = r.state
        /\ heap' = r.heap
        /\ CallTrigger("post_execute", Kw({"state"}, r.state, "", NoExc, ""))
  /\ clock' = clock + 1
  /\ pc' = "return"
  /\ UNCHANGED <<agent, call, initial_state, max_steps, steps, executed, idx,
                 result>>

\* line 47: while steps < max_steps is false
LoopExit ==
  /\ pc = "loop" /\ Idle
  /\ ~(steps < max_steps)
  /\ Finalize

\* lines 47-52: enter the loop body, start the for loop
LoopEnter ==
  /\ pc = "loop" /\ Idle
  /\ steps < max_steps
  /\ executed' = FALSE
  /\ idx' = 1
  /\ pc' = "scan"
  /\ UNCHANGED <<agent, heap, call, initial_state, max_steps, current_state,
                 steps, stack, trig_exc, result, events, clock>>

\* line 54: can_handle is false, the for loop moves on
ScanSkip ==
  /\ pc = "scan" /\ Idle
  /\ idx <= Len(skills)
  /\ ~can_handle(skills[idx], current_state)
  /\ events' = Append(events, Ev("can_handle", "", "", skills[idx].name,
                   Kw({"state"}, current_state, "", NoExc, ""), "false"))
  /\ idx' = idx + 1
  /\ UNCHANGED <<pc, agent, heap, call, initial_state, max_steps,
                 current_state, steps, executed, stack, trig_exc, result,
                 clock>>

\* lines 54-64: can_handle is true, stamp, trigger SKILL_START
ScanSelect ==
  /\ pc = "scan" /\ Idle
  /\ idx <= Len(skills)
  /\ can_handle(skills[idx], current_state)
  /\ LET r  == with_context(heap, current_state,
                            [current_step |-> steps,
                             current_skill |-> skills[idx].name,
                             skill_started_at |-> clock])
         kw == Kw({"skill", "state"}, r.state, skills[idx].name, NoExc, "")
     IN /\ current_state' = r.state
        /\ heap' = r.heap
        /\ events' = events \o
             << Ev("can_handle", "", "", skills[idx].name,
                   Kw({"state"}, current_state, "", NoExc, ""), "true"),
                Ev("trigger", "skill_start", "", "", kw, "") >>
        /\ stack' = Settle(hooks, <<Frame("skill_start", kw)>>)
  /\ trig_exc' = NoExc
  /\ clock' = clock + 1
  /\ pc' = "call"
  /\ UNCHANGED <<agent, call, initial_state, max_steps, steps, executed, idx,
                 result>>

\* lines 95-104: the for loop ended without a break: not executed, break
ScanExhausted ==
  /\ pc = "scan" /\ Idle
  /\ idx > Len(skills)
  /\ ~executed
  /\ Finalize

\* an except handler that stamps the error on a state built anew from the
\* data
ExceptHandler_fresh_state(h, e) ==
  LET n  == NewState(h, current_state.data, NoneRef, NoneRef)
      r  == with_context(n.heap, n.state,
                         [error |-> str(e),
                          error_skill |-> skills[idx].name,
                          error_step |-> steps])
  IN [heap |-> r.heap, state |-> r.state,
      kwargs |-> Kw({"exception", "skill", "state"}, r.state,
                    skills[idx].name, e, "")]

\* lines 81-92: except Exception as e: stamp the error, trigger ERROR;
\* h is the heap the try block left behind
ExceptHandler(h, e) ==
  LET r  == with_context(h, current_state,
                         [error |-> str(e),
                          error_skill |-> skills[idx].name,
                          error_step |-> steps])
  IN [heap |-> r.heap, state |-> r.state,
      kwargs |-> Kw({"exception", "skill", "state"}, r.state,
                    skills[idx].name, e, "")]

\* the self.ask call of the body of sk called on state s, when the body
\* ran: it reaches the client of the agent sk.agent refers to
BodyAsks(sk, s, ran) ==
  LET id == skill_agent[sk.name]
      rs == IF ran /\ Asks(sk)
            THEN ask(id # 0, IF id = 2 THEN second.model ELSE model,
                     s.data.text, sk.output_types[1],
                     BodySystemPrompt).requests
            ELSE <<>>
  IN /\ requests' = IF id = 2 THEN requests ELSE requests \o rs
     /\ second' = IF id = 2 THEN [second EXCEPT !.requests = @ \o rs]
                  ELSE second

\* lines 66-77: skill.execute returns a state; stamp, trigger SKILL_END
SkillSucceeds ==
  /\ pc = "call" /\ Idle
  /\ \E o \in skills[idx].body :
       LET x == execute(skills[idx], heap, current_state, o) IN
       /\ x.kind = "state"
       /\ BodyAsks(skills[idx], current_state, x.body)
       /\ LET r  == with_context(x.heap, x.state,
                                 [last_skill |-> skills[idx].name,
                                  last_step |-> steps,
                                  skill_completed_at |-> clock])
              kw == Kw({"skill", "state"}, r.state, skills[idx].name,
                       NoExc, "")
          IN /\ current_state' = r.state
             /\ heap' = r.heap
             /\ events' = events \o
                  << Ev("execute", "", "", skills[idx].name,
                        Kw({"state"}, current_state, "", NoExc, ""), "state"),
                     Ev("trigger", "skill_end", "", "", kw, "") >>
             /\ stack' = Settle(hooks, <<Frame("skill_end", kw)>>)
  /\ trig_exc' = NoExc
  /\ clock' = clock + 1
  /\ pc' = "skill_end"
  /\ UNCHANGED <<wiring, call, initial_state, max_steps, steps, executed, idx,
                 result>>

\* lines 66-67: skill.execute returns None; the for loop moves on
SkillReturnsNone ==
  /\ pc = "call" /\ Idle
  /\ \E o \in skills[idx].body :
       execute(skills[idx], heap, current_state, o).kind = "none"
  /\ events' = Append(events, Ev("execute", "", "", skills[idx].name,
                   Kw({"state"}, current_state, "", NoExc, ""), "none"))
  /\ idx' = idx + 1
  /\ pc' = "scan"
  /\ UNCHANGED <<agent, heap, call, initial_state, max_steps, current_state,
                 steps, executed, stack, trig_exc, result, clock>>

\* lines 66, 81-92: skill.execute raises
SkillRaises ==
  /\ pc = "call" /\ Idle
  /\ \E o \in skills[idx].body :
       LET x == execute(skills[idx], heap, current_state, o) IN
       /\ x.kind = "raise"
       /\ BodyAsks(skills[idx], current_state, x.body)
       /\ LET r == ExceptHandler(x.heap, x.exc)
          IN /\ current_state' = r.state
             /\ heap' = r.heap
             /\ events' = events \o
                  << Ev("execute", "", "", skills[idx].name,
                        Kw({"state"}, current_state, "", NoExc, ""), "raise"),
                     Ev("trigger", "error", "", "", r.kwargs, "") >>
             /\ stack' = Settle(hooks, <<Frame("error", r.kwargs)>>)
  /\ trig_exc' = NoExc
  /\ pc' = "error"
  /\ UNCHANGED <<wiring, call, initial_state, max_steps, steps, executed, idx,
                 result, clock>>

\* lines 62, 75, 81-92: a trigger inside the try block raised
TriggerCaught ==
  /\ pc \in {"call", "skill_end"}
  /\ stack = <<>> /\ trig_exc # NoExc
  /\ LET r == ExceptHandler(heap, trig_exc)
     IN /\ current_state' = r.state
        /\ heap' = r.heap
        /\ CallTrigger("error", r.kwargs)
  /\ pc' = "error"
  /\ UNCHANGED <<agent, call, initial_state, max_steps, steps, executed, idx,
                 result, clock>>

\* lines 78-79, 95-98: executed = True, break, steps += 1
StepDone ==
  /\ pc = "skill_end" /\ Idle
  /\ executed' = TRUE
  /\ steps' = steps + 1
  /\ pc' = "loop"
  /\ UNCHANGED <<agent, heap, call, initial_state, max_steps, current_state,
                 idx, stack, trig_exc, result, events, clock>>

\* line 92: continue with the next skill of the for loop
ErrorHandled ==
  /\ pc = "error" /\ Idle
  /\ idx' = idx + 1
  /\ pc' = "scan"
  /\ UNCHANGED <<agent, heap, call, initial_state, max_steps, current_state,
                 steps, executed, stack, trig_exc, result, events, clock>>

\* lines 44, 86, 104 (and a direct call): a trigger outside any try block
\* raised; the exception leaves the call
TriggerPropagates ==
  /\ pc \in {"loop", "error", "return", "trigger"}
  /\ stack = <<>> /\ trig_exc # NoExc
  /\ pc' = IF pc = "trigger" THEN "trigger_raised" ELSE "raised"
  /\ result' = Raised(heap, trig_exc)
  /\ UNCHANGED <<agent, run_locals, stack, trig_exc, events>>

\* line 106: return current_state
Return ==
  /\ pc = "return" /\ Idle
  /\ pc' = "done"
  /\ result' = Returned(heap, current_state)
  /\ UNCHANGED <<agent, run_locals, stack, trig_exc, events>>

Next ==
  \/ \E a \in Agents : AgentInit(a.skills, a.client, a.model)
  \/ \E sk \in Catalogue, a \in DirectStates : DirectExecute(sk, a)
  \/ \E p \in Prompts, rm \in ResponseModels, sp \in SystemPrompts :
       Ask(p, rm, sp)
  \/ \E a \in SecondAgents : SecondAgentInit(a)
  \/ \E r \in Registrations : On(r[1], r[2])
  \/ \E point \in HookPoint : DirectTrigger(point)
  \/ DirectReturn
  \/ \E c \in Calls, u \in Updates : DirectWithContext(c.initial_state, u)
  \/ HookReturns
  \/ HookRaises
  \/ HookOverflows
  \/ \E c \in Calls, ms \in StepLimits : Execute(c, ms)
  \/ LoopExit
  \/ LoopEnter
  \/ ScanSkip
  \/ ScanSelect
  \/ ScanExhausted
  \/ SkillSucceeds
  \/ SkillReturnsNone
  \/ SkillRaises
  \/ TriggerCaught
  \/ StepDone
  \/ ErrorHandled
  \/ TriggerPropagates
  \/ Return

Spec == Init /\ [][Next]_vars

\* ------------------------------------------------------------------------
\* Reading the observation log
\* ------------------------------------------------------------------------
\* positions of the skill.execute calls that raised / returned a state
Failures  == {i \in 1..Len(events) :
                events[i].ev = "execute" /\ events[i].res = "raise"}
Successes == {i \in 1..Len(events) :
                events[i].ev = "execute" /\ events[i].res = "state"}
Last(S) == CHOOSE i \in S : \A j \in S : j <= i

\* the names of the skills whose execute returned a state, in order
RECURSIVE SucceededFrom(_)
SucceededFrom(i) ==
  IF i > Len(events) THEN <<>>
  ELSE IF i \in Successes THEN <<events[i].skill>> \o SucceededFrom(i + 1)
       ELSE SucceededFrom(i + 1)

\* the callbacks a trigger of point p with keyword arguments kw invoked
RECURSIVE InvokedFrom(_, _, _)
InvokedFrom(i, p, kw) ==
  IF i > Len(events) THEN <<>>
  ELSE IF events[i].ev = "callback" /\ events[i].point = p
          /\ events[i].kwargs = kw
       THEN <<events[i].cb>> \o InvokedFrom(i + 1, p, kw)
       ELSE InvokedFrom(i + 1, p, kw)

\* the Hooks.trigger calls made by Agent.execute itself for point p
AgentTriggers(p) ==
  {i \in 1..Len(events) : events[i].ev = "trigger" /\ events[i].point = p
                          /\ "hook" \notin events[i].kwargs.keys}

\* a run of Agent.execute has ended
RunEnded == pc \in {"done", "raised"}

\* the context and metadata the caller built the initial state with
GivenContext  == IF call.initial_state.context = None THEN EmptyDict
                 ELSE call.initial_state.context
GivenMetadata == IF call.initial_state.metadata = None THEN EmptyDict
                 ELSE call.initial_state.metadata

\* the context of the state the run returned
FinalContext == heap[result.state.context]

SkillNames == [i \in 1..Len(skills) |-> skills[i].name]
IsChain == SkillNames = <<"AnalyzerSkill", "ResponderSkill">>
ErrorKeys == {"error", "error_skill", "error_step"}

\* ------------------------------------------------------------------------
\* C1: a skill whose execute raises never aborts the run: the exception is
\* turned into the error fields of the context and an ERROR trigger with the
\* exception, the skill and the stamped state, and execute returns a State.
\* ------------------------------------------------------------------------
C1_SkillFailureNeverAbortsRun ==
  \A i \in Failures :
    /\ events[i + 1].ev = "trigger" /\ events[i + 1].point = "error"
    /\ events[i + 1].kwargs.skill = events[i].skill
    /\ events[i + 1].kwargs.exception.origin \in {"skill", "contract"}
    /\ ErrorKeys \subseteq DOMAIN heap[events[i + 1].kwargs.state.context]
    /\ pc # "raised"
    /\ pc = "done" => result.kind = "state"

\* ------------------------------------------------------------------------
\* C2: after a run in which some skill's execute raised, the context of the
\* returned state has error, error_skill and error_step, and they are those
\* of the skill that failed last.
\* ------------------------------------------------------------------------
C2_FinalContextRecordsLastFailure ==
  (pc = "done" /\ Failures # {}) =>
    /\ ErrorKeys \subseteq DOMAIN FinalContext
    /\ FinalContext["error_skill"] = events[Last(Failures)].skill
    /\ FinalContext["error"] =
         str(events[Last(Failures) + 1].kwargs.exception)

\* ------------------------------------------------------------------------
\* C3: with skills [AnalyzerSkill, ResponderSkill], a Query state, no extra
\* context and the default max_steps, the run executes AnalyzerSkill then
\* ResponderSkill, returns a Response with total_steps = 2, and every key of
\* the initial context is still there with its original value.
\* ------------------------------------------------------------------------
C3_ChainRunsTwoSteps ==
  ( /\ RunEnded /\ IsChain
    /\ call.initial_state.data.type = "Query" /\ call.context = None
    /\ max_steps = DefaultMaxSteps ) =>
    /\ pc = "done"
    /\ SucceededFrom(1) = <<"AnalyzerSkill", "ResponderSkill">>
    /\ result.state.data.type = "Response"
    /\ FinalContext["total_steps"] = 2
    /\ \A k \in DOMAIN GivenContext :
         k \in DOMAIN FinalContext /\ FinalContext[k] = GivenContext[k]

\* ------------------------------------------------------------------------
\* C4: max_steps bounds the run: the number of execute calls that returned
\* a state, and the total_steps of the returned state, never exceed
\* max_steps; with max_steps = 1 the chain stops after AnalyzerSkill with an
\* Analysis payload and total_steps = 1, ResponderSkill never being called.
\* ------------------------------------------------------------------------
C4_StepLimitBoundsRun ==
  /\ Cardinality(Successes) <= max_steps
  /\ pc = "done" => FinalContext["total_steps"] <= max_steps
  /\ ( /\ RunEnded /\ IsChain /\ max_steps = 1
       /\ call.initial_state.data.type = "Query" ) =>
       /\ pc = "done"
       /\ SucceededFrom(1) = <<"AnalyzerSkill">>
       /\ result.state.data.type = "Analysis"
       /\ FinalContext["total_steps"] = 1
       /\ \A i \in 1..Len(events) :
            events[i].ev = "execute" => events[i].skill # "ResponderSkill"

\* ------------------------------------------------------------------------
\* C5: when no skill can handle the initial state (the empty list included)
\* the run calls no execute, triggers no SKILL_START, SKILL_END or ERROR,
\* and returns the input payload with execution_completed_at set and
\* total_steps = 0.
\* ------------------------------------------------------------------------
C5_NoMatchReturnsInput ==
  ( /\ RunEnded
    /\ \A j \in 1..Len(skills) : ~can_handle(skills[j], initial_state) ) =>
    /\ pc = "done"
    /\ \A i \in 1..Len(events) : events[i].ev # "execute"
    /\ AgentTriggers("skill_start") = {}
    /\ AgentTriggers("skill_end") = {}
    /\ AgentTriggers("error") = {}
    /\ result.state.data = initial_state.data
    /\ "execution_completed_at" \in DOMAIN FinalContext
    /\ FinalContext["total_steps"] = 0

\* ------------------------------------------------------------------------
\* C6: S.with_context(**U) returns a new state whose context is the merge
\* of S.context and U, U winning where both have a key; its data and
\* metadata equal those of S; the context and metadata of S are as before.
\* ------------------------------------------------------------------------
C6_WithContextMerges ==
  pc = "with_context_done" =>
    LET S == initial_state
        N == result.state
        U == call.context
    IN /\ DOMAIN heap[N.context] = (DOMAIN GivenContext) \cup (DOMAIN U)
       /\ \A k \in DOMAIN U : heap[N.context][k] = U[k]
       /\ \A k \in (DOMAIN GivenContext) \ (DOMAIN U) :
            heap[N.context][k] = GivenContext[k]
       /\ N.data = S.data
       /\ heap[N.metadata] = GivenMetadata
       /\ N.context # S.context
       /\ heap[S.context] = GivenContext
       /\ heap[S.metadata] = GivenMetadata

\* a with_context whose updates overwrite a key of the old context
C6_Witness ==
  /\ pc = "with_context_done"
  /\ \E k \in (DOMAIN GivenContext) \cap (DOMAIN call.context) :
       GivenContext[k] # call.context[k]

\* ------------------------------------------------------------------------
\* C7: the initial state handed to execute is never changed by the run:
\* its data, its context dict and its metadata dict stay what the caller
\* built, through every step, success and failure.
\* ------------------------------------------------------------------------
C7_InitialStateUntouched ==
  pc \in {"loop", "scan", "call", "skill_end", "error", "return", "done",
          "raised"} =>
    /\ initial_state.data = call.initial_state.data
    /\ heap[initial_state.context] = GivenContext
    /\ heap[initial_state.metadata] = GivenMetadata

\* a run with a failure and a completed step has returned
C7_Witness ==
  /\ pc = "done" /\ Failures # {} /\ steps >= 1
  /\ DOMAIN GivenContext # {}

\* ------------------------------------------------------------------------
\* C8: Hooks.trigger(point, **kwargs) invokes every callback registered for
\* the point, in registration order, with the same keyword arguments; when a
\* callback raises, trigger does not raise and the callbacks registered
\* after it are still invoked.
\* ------------------------------------------------------------------------
C8_TriggerInvokesAllInOrder ==
  pc \in {"triggered", "trigger_raised"} =>
    /\ pc = "triggered"
    /\ InvokedFrom(1, events[1].point, events[1].kwargs)
         = hooks[events[1].point]

\* ------------------------------------------------------------------------
\* C9: when an ERROR callback raises while a re-dispatched ERROR trigger is
\* being handled, the failure is dropped: no further ERROR trigger follows,
\* and no trigger and no run raises because of a callback.
\* ------------------------------------------------------------------------
C9_ErrorCallbackFailureIsDropped ==
  /\ \A i \in 1..Len(events) :
       ( /\ events[i].ev = "callback" /\ events[i].res = "raised"
         /\ events[i].point = "error" /\ "hook" \in events[i].kwargs.keys
         /\ i < Len(events) ) => events[i + 1].ev # "trigger"
  /\ trig_exc = NoExc
  /\ pc \notin {"trigger_raised", "raised"}

\* ------------------------------------------------------------------------
\* C10: for a skill with @skill type information, can_handle(state) is true
\* exactly when the type of state.data is the declared input type; it is
\* false for any other type, a subclass of the input type included.
\* ------------------------------------------------------------------------
C10_CanHandleIffExactType ==
  \A i \in 1..Len(events) :
    events[i].ev = "can_handle" =>
      \A j \in 1..Len(skills) :
        (skills[j].name = events[i].skill /\ skills[j].typed) =>
          ( events[i].res = "true"
            <=> events[i].kwargs.state.data.type = skills[j].input_type )

\* C10 as amended: can_handle(state) is true exactly when state.data is an
\* instance of the declared input type: of that type or of a subclass of it.
SubclassPairs == { <<"DetailedQuery", "Query">> }
C10_CanHandleIffInstance ==
  \A i \in 1..Len(events) :
    events[i].ev = "can_handle" =>
      \A j \in 1..Len(skills) :
        (skills[j].name = events[i].skill /\ skills[j].typed) =>
          ( events[i].res = "true"
            <=> \/ events[i].kwargs.state.data.type = skills[j].input_type
                \/ <<events[i].kwargs.state.data.type, skills[j].input_type>>
                     \in SubclassPairs )

\* can_handle has accepted a payload of a subclass and rejected another type
C10_Witness ==
  /\ \E i \in 1..Len(events) :
       /\ events[i].ev = "can_handle" /\ events[i].res = "true"
       /\ events[i].kwargs.state.data.type = "DetailedQuery"
       /\ events[i].skill = "AnalyzerSkill"
  /\ \E i \in 1..Len(events) :
       events[i].ev = "can_handle" /\ events[i].res = "false"

\* ------------------------------------------------------------------------
\* C11: a @skill-wrapped execute returns a result only if state.data is a
\* pydantic model of the declared input type and the result is a State
\* whose data is a pydantic model of one of the declared output types;
\* otherwise it raises a TypeError of the wrapper (an exception of the body
\* itself passes through), and when the input check fails the body is not
\* run.
\* ------------------------------------------------------------------------
StructuredTypes ==
  {"Query", "DetailedQuery", "Analysis", "Response", "SimpleResponse",
   "DetailedResponse"}
Conforms(t, cls) ==
  t \in StructuredTypes /\ (t = cls \/ <<t, cls>> \in SubclassPairs)
C11_ContractGuardsTransform ==
  (pc = "executed" /\ call.skill.typed) =>
    LET sk == call.skill
        InputOK == Conforms(call.initial_state.data.type, sk.input_type)
    IN /\ result.kind \in {"state", "raise"}
       /\ result.kind = "state" =>
            /\ InputOK
            /\ \E j \in 1..Len(sk.output_types) :
                 Conforms(result.state.data.type, sk.output_types[j])
       /\ ~InputOK =>
            /\ result.kind = "raise"
            /\ result.exc.type = "TypeError"
            /\ result.exc.origin = "contract"
            /\ ~result.body
       /\ (result.kind = "raise" /\ result.exc.origin # "contract") =>
            result.body /\ result.exc.origin \in {"skill", "ask"}

\* a direct execute with a payload of another model type was refused
C11_Witness ==
  /\ pc = "executed" /\ call.skill.typed
  /\ call.initial_state.data.type = "Analysis"
  /\ call.skill.input_type = "Query"
  /\ result.kind = "raise" /\ ~result.body

\* ------------------------------------------------------------------------
\* C12: Skill.ask on a skill without agent raises the RuntimeError and no
\* call reaches a client; on a skill of an agent it makes exactly one call
\* of the agent's client with the agent's model, the response model asked
\* for, and the messages [system, user] when a system prompt is given
\* (is not None) and [user] otherwise.
\* ------------------------------------------------------------------------
C12_AskForwardsGivenSystemPrompt ==
  pc = "asked" =>
    IF ~call.attached
    THEN result.kind = "raise" /\ result.exc = NotAttached
         /\ requests = <<>>
    ELSE requests =
      << [model |-> model,
          messages |->
            IF call.system_prompt # None
            THEN <<[role |-> "system", content |-> call.system_prompt.text],
                   [role |-> "user", content |-> call.prompt]>>
            ELSE <<[role |-> "user", content |-> call.prompt]>>,
          response_model |-> call.response_model] >>

\* C12 as amended: the messages are [system, user] when a system prompt
\* that is not empty is given, and [user] when it is None or empty.
C12_AskForwardsNonEmptySystemPrompt ==
  pc = "asked" =>
    IF ~call.attached
    THEN result.kind = "raise" /\ result.exc = NotAttached
         /\ requests = <<>>
    ELSE requests =
      << [model |-> model,
          messages |->
            IF call.system_prompt # None /\ call.system_prompt.text # ""
            THEN <<[role |-> "system", content |-> call.system_prompt.text],
                   [role |-> "user", content |-> call.prompt]>>
            ELSE <<[role |-> "user", content |-> call.prompt]>>,
          response_model |-> call.response_model] >>

\* a skill of an agent asked with a system prompt
C12_Witness ==
  /\ pc = "asked" /\ call.attached
  /\ call.system_prompt = [text |-> "test system"]
  /\ Len(requests) = 1 /\ Len(requests[1].messages) = 2

\* ------------------------------------------------------------------------
\* C13: in every run PRE_EXECUTE is triggered exactly once, before any
\* SKILL_START, SKILL_END or skill ERROR trigger, with the initial state as
\* the caller built it (no extra context, no stamps); POST_EXECUTE is
\* triggered exactly once, after every step event, however the loop ended,
\* with exactly the state the run returns.
\* ------------------------------------------------------------------------
InRun == pc \in {"loop", "scan", "call", "skill_end", "error", "return",
                 "done", "raised"}
StepEvents ==
  AgentTriggers("skill_start") \cup AgentTriggers("skill_end")
  \cup AgentTriggers("error")
  \cup {i \in 1..Len(events) : events[i].ev \in {"can_handle", "execute"}}
C13_RunEventsBracketTheSteps ==
  InRun =>
    /\ AgentTriggers("pre_execute") = {1}
    /\ events[1].kwargs.state = initial_state
    /\ heap[events[1].kwargs.state.context] = GivenContext
    /\ RunEnded =>
         /\ pc = "done"
         /\ Cardinality(AgentTriggers("post_execute")) = 1
         /\ \A i \in AgentTriggers("post_execute") :
              /\ \A j \in StepEvents : j < i
              /\ events[i].kwargs.state = result.state

\* ------------------------------------------------------------------------
\* C14: constructing an Agent with a client that has no on() succeeds: the
\* constructor does not raise and the agent is ready to run.
\* ------------------------------------------------------------------------
C14_ClientWithoutOnConstructs ==
  client = "plain" => (pc # "init_raised" /\ result.kind # "raise")

\* ------------------------------------------------------------------------
\* C15: the engine never alters metadata: when every skill that succeeded
\* passes the metadata of its input on, the metadata of the returned state
\* equals the metadata of the initial state, whatever max_steps and the
\* number of steps and failures.
\* ------------------------------------------------------------------------
KeepsMetadata(name) ==
  \A j \in 1..Len(skills) :
    skills[j].name = name =>
      \A o \in skills[j].body : o.kind = "return" => o.keep_metadata
C15_MetadataUnchangedByEngine ==
  ( /\ pc = "done"
    /\ \A i \in Successes : KeepsMetadata(events[i].skill) ) =>
    heap[result.state.metadata] = GivenMetadata

\* a run with metadata, a failure and a success has returned
C15_Witness ==
  /\ pc = "done" /\ Failures # {} /\ Successes # {}
  /\ \A i \in Successes : KeepsMetadata(events[i].skill)
  /\ DOMAIN GivenMetadata # {}

\* ------------------------------------------------------------------------
\* C16: within one step the skills are considered in list order and the
\* first match wins: at most one execute returns a state per step, and
\* after one has, no later skill is asked can_handle or executed in that
\* step: the next can_handle is that of the first skill of the list.
\* ------------------------------------------------------------------------
SkillEvents ==
  {i \in 1..Len(events) : events[i].ev \in {"can_handle", "execute"}}
StepOf(i) == heap[events[i].kwargs.state.context]["current_step"]
C16_FirstMatchWins ==
  /\ \A i \in Successes : \A j \in Successes :
       i # j => StepOf(i) # StepOf(j)
  /\ \A i \in Successes : \A j \in SkillEvents :
       (j > i /\ \A k \in SkillEvents : ~(i < k /\ k < j)) =>
         events[j].ev = "can_handle" /\ events[j].skill = skills[1].name

\* ------------------------------------------------------------------------
\* C17: when the execute of a selected skill raises, ERROR is triggered
\* once with that exception, that skill and the error-stamped state, and
\* the scan continues with the next skill of the list in the same step:
\* the run does not end there unless the skill was the last, and the skill
\* that failed is not executed again in that step.
\* ------------------------------------------------------------------------
PositionOf(name) == CHOOSE j \in 1..Len(skills) : skills[j].name = name
C17_FailureContinuesScan ==
  \A i \in Failures :
    /\ events[i + 1].ev = "trigger" /\ events[i + 1].point = "error"
    /\ events[i + 1].kwargs.skill = events[i].skill
    /\ events[i + 1].kwargs.exception.origin \in {"skill", "contract"}
    /\ ErrorKeys \subseteq DOMAIN heap[events[i + 1].kwargs.state.context]
    /\ \A j \in SkillEvents :
         (j > i /\ \A k \in SkillEvents : ~(i < k /\ k < j)) =>
           /\ events[j].ev = "can_handle"
           /\ events[j].skill = skills[PositionOf(events[i].skill) + 1].name
           /\ \A k \in AgentTriggers("error") : ~(i + 1 < k /\ k < j)
    /\ \A j \in SkillEvents :
         (j > i /\ events[j].ev = "execute"
          /\ events[j].skill = events[i].skill) => StepOf(j) # StepOf(i)
    /\ RunEnded =>
         /\ pc = "done"
         /\ PositionOf(events[i].skill) < Len(skills) =>
              \E j \in SkillEvents : j > i

\* ------------------------------------------------------------------------
\* C18: the step counter counts the successful executes: at the end of a
\* run total_steps equals the number of execute calls that returned a
\* state, which equals the number of SKILL_END triggers; a scan in which
\* every candidate failed adds nothing.
\* ------------------------------------------------------------------------
C18_TotalStepsCountsSuccesses ==
  /\ pc = "done" =>
       /\ FinalContext["total_steps"] = Cardinality(Successes)
       /\ FinalContext["total_steps"]
            = Cardinality(AgentTriggers("skill_end"))
  /\ pc \in {"loop", "scan"} => steps = Cardinality(Successes)

\* ------------------------------------------------------------------------
\* C19: every run ends by returning, never by raising: the loop counters
\* stay within max_steps and the length of the skill list, and the run
\* returns either because the number of successful steps has reached
\* max_steps or at the first scan that produced no successful execute.
\* ------------------------------------------------------------------------
C19_RunEndsCompletedOrStepLimit ==
  InRun =>
    /\ pc # "raised"
    /\ steps <= max_steps
    /\ pc \in {"scan", "call", "skill_end", "error"} =>
         idx <= Len(skills) + 1
    /\ pc = "done" =>
         \/ Cardinality(Successes) = max_steps
         \/ Cardinality(Successes) < max_steps /\ ~executed

\* ------------------------------------------------------------------------
\* C20: a failed execute leaves the data of the current state untouched:
\* the state after the failure has the data and metadata of the state the
\* skill was selected on, and its context differs only by the engine keys
\* current_step, current_skill, skill_started_at, error, error_skill and
\* error_step; every other key keeps its value.
\* ------------------------------------------------------------------------
FailureKeys ==
  {"current_step", "current_skill", "skill_started_at"} \cup ErrorKeys
SelectedAt(i) ==
  Last({j \in 1..i : events[j].ev = "can_handle" /\ events[j].res = "true"})
C20_FailureLeavesDataUntouched ==
  \A i \in Failures :
    LET before == events[SelectedAt(i)].kwargs.state
        after  == events[i + 1].kwargs.state
    IN /\ after.data = before.data
       /\ heap[after.metadata] = heap[before.metadata]
       /\ DOMAIN heap[after.context]
            = (DOMAIN heap[before.context]) \cup FailureKeys
       /\ \A k \in (DOMAIN heap[before.context]) \ FailureKeys :
            heap[after.context][k] = heap[before.context][k]

\* an execute has raised on a state whose context has a caller's key
C20_Witness ==
  \E i \in Failures :
    /\ "user_id" \in DOMAIN heap[events[SelectedAt(i)].kwargs.state.context]
    /\ events[i + 1].ev = "trigger"

\* ------------------------------------------------------------------------
\* C21: step events are paired: each SKILL_START trigger for a skill is
\* followed, before the next SKILL_START and before POST_EXECUTE, by
\* exactly one SKILL_END or exactly one ERROR trigger for that skill, also
\* for a skill without type information whose execute returns None.
\* ------------------------------------------------------------------------
Boundaries ==
  AgentTriggers("skill_start") \cup AgentTriggers("post_execute")
  \cup (IF RunEnded THEN {Len(events) + 1} ELSE {})
C21_StepEventsArePaired ==
  InRun =>
    \A i \in AgentTriggers("skill_start") :
      \A j \in Boundaries :
        (j > i /\ \A k \in Boundaries : ~(i < k /\ k < j)) =>
          Cardinality({k \in AgentTriggers("skill_end")
                             \cup AgentTriggers("error") :
                         /\ i < k /\ k < j
                         /\ events[k].kwargs.skill = events[i].kwargs.skill})
            = 1

\* ------------------------------------------------------------------------
\* C22: a skill without type information is permissive: its can_handle is
\* true for every state, so in a run where such a skill is first in the
\* list and always succeeds it is selected in every step, no other skill is
\* asked or executed, and the run ends by the step limit with total_steps
\* equal to max_steps.
\* ------------------------------------------------------------------------
Untyped(name) ==
  \E j \in 1..Len(skills) : skills[j].name = name /\ ~skills[j].typed
C22_UntypedSkillIsPermissive ==
  /\ \A i \in 1..Len(events) :
       (events[i].ev = "can_handle" /\ Untyped(events[i].skill)) =>
         events[i].res = "true"
  /\ ( /\ RunEnded /\ skills # <<>>
       /\ ~skills[1].typed
       /\ \A o \in skills[1].body : o.kind = "return" ) =>
       /\ pc = "done"
       /\ \A i \in SkillEvents : events[i].skill = skills[1].name
       /\ Cardinality(Successes) = max_steps
       /\ FinalContext["total_steps"] = max_steps

\* ------------------------------------------------------------------------
\* C23: constructing an Agent sets the agent of every skill of its list to
\* that agent, and a later construction overwrites: a skill given to a
\* first and then to a second agent refers to the second, so the ask its
\* body makes during a run of the first agent reaches the client of the
\* second agent, with the model of the second agent.
\* ------------------------------------------------------------------------
Reattached(name) ==
  \E i \in 1..Len(second.skills) : second.skills[i].name = name
AskingExecutes ==
  {i \in 1..Len(events) :
     /\ events[i].ev = "execute"
     /\ events[i].skill \in {"QueryAnalyzer", "SmartAnswerSkill"}}
C23_ReattachmentOverwrites ==
  /\ (pc # "new" /\ client = "instructor") =>
       \A j \in 1..Len(skills) :
         skill_agent[skills[j].name]
           = IF Reattached(skills[j].name) THEN 2 ELSE 1
  /\ InRun =>
       /\ Len(second.requests)
            = Cardinality({i \in AskingExecutes :
                             Reattached(events[i].skill)})
       /\ \A k \in 1..Len(second.requests) :
            second.requests[k].model = second.model
       /\ Len(requests)
            = Cardinality({i \in AskingExecutes :
                             ~Reattached(events[i].skill)})
       /\ \A k \in 1..Len(requests) : requests[k].model = model

\* a skill given to a second agent has asked during a run of the first
C23_Witness ==
  /\ InRun /\ second # NoAgent
  /\ Len(second.requests) >= 1 /\ requests = <<>>
  /\ second.model # model

\* ------------------------------------------------------------------------
\* C24: when a callback of a point other than ERROR raises during trigger,
\* ERROR is triggered with the exception and the failing callback, and
\* every ERROR callback is invoked exactly once for that failure, in
\* registration order, before the remaining callbacks of the original
\* point are invoked; the trigger does not raise.
\* ------------------------------------------------------------------------
C24_FailureIsRoutedToErrorCallbacks ==
  \A i \in 1..Len(events) :
    ( /\ events[i].ev = "callback" /\ events[i].res = "raised"
      /\ events[i].point # "error" ) =>
      LET n == Len(hooks["error"]) IN
      /\ i < Len(events)
      /\ events[i + 1].ev = "trigger" /\ events[i + 1].point = "error"
      /\ events[i + 1].kwargs.keys = {"exception", "hook"}
      /\ events[i + 1].kwargs.hook = events[i].cb
      /\ events[i + 1].kwargs.exception = HookError(events[i].cb)
      /\ \A k \in 1..n :
           i + 1 + k <= Len(events) =>
             /\ events[i + 1 + k].ev = "callback"
             /\ events[i + 1 + k].point = "error"
             /\ events[i + 1 + k].cb = hooks["error"][k]
             /\ events[i + 1 + k].kwargs = events[i + 1].kwargs
      /\ i + 2 + n <= Len(events) =>
           ~( /\ events[i + 2 + n].ev = "callback"
              /\ events[i + 2 + n].point = "error" )
      /\ stack = <<>> => (Len(events) >= i + 1 + n /\ trig_exc = NoExc)

\* ------------------------------------------------------------------------
\* C25: Hooks.on only appends to the list of the given point, without
\* deduplication: every step that changes the registrations appends one
\* callback to one list and leaves the other lists as they are; a trigger
\* whose callbacks all return invokes the callbacks of its point, as many
\* times as they are registered and in order, and no callback of any
\* other point.
\* ------------------------------------------------------------------------
C25_OnAppendsOnly ==
  /\ [][hooks' # hooks =>
          \E point \in HookPoint : \E cb \in Callbacks :
            hooks' = [hooks EXCEPT ![point] = Append(@, cb)]]_vars
  /\ []( ( /\ pc = "triggered"
           /\ \A i \in 1..Len(events) : events[i].res # "raised" ) =>
           /\ [j \in 1..(Len(events) - 1) |-> events[j + 1].cb]
                = hooks[events[1].point]
           /\ \A j \in 2..Len(events) :
                /\ events[j].ev = "callback"
                /\ events[j].point = events[1].point )

\* a trigger of a point with one callback registered twice has returned
C25_Witness ==
  /\ pc = "triggered"
  /\ hooks[events[1].point] = <<"log", "log">>
  /\ Len(events) = 3

\* ------------------------------------------------------------------------
\* C26: at the start of a run the context is built by merging, later
\* writes winning, the initial context, then the context argument, then
\* the engine stamps: a key of both takes the value of the context
\* argument, max_steps and execution_started_at override a caller's key of
\* the same name, and the state of the first SKILL_START trigger has all
\* these keys.
\* ------------------------------------------------------------------------
GivenExtra == IF call.context = None THEN EmptyDict ELSE call.context
FirstStart ==
  CHOOSE i \in AgentTriggers("skill_start") :
    \A j \in AgentTriggers("skill_start") : i <= j
C26_StartContextMergesInOrder ==
  (InRun /\ AgentTriggers("skill_start") # {}) =>
    LET ctx == heap[events[FirstStart].kwargs.state.context] IN
    /\ "execution_started_at" \in DOMAIN ctx
    /\ ctx["execution_started_at"] \in Nat
    /\ "max_steps" \in DOMAIN ctx /\ ctx["max_steps"] = max_steps
    /\ \A k \in (DOMAIN GivenExtra) \ {"max_steps", "execution_started_at"} :
         k \in DOMAIN ctx /\ ctx[k] = GivenExtra[k]
    /\ \A k \in (DOMAIN GivenContext)
                  \ ({"max_steps", "execution_started_at"}
                      \cup DOMAIN GivenExtra) :
         k \in DOMAIN ctx /\ ctx[k] = GivenContext[k]

\* a first step has started in a run whose context argument and stamps
\* collide with keys of the initial context and of each other
C26_Witness ==
  /\ InRun /\ AgentTriggers("skill_start") # {}
  /\ call.context # None
  /\ "max_steps" \in DOMAIN call.context
  /\ call.context["max_steps"] # max_steps
  /\ "user_id" \in DOMAIN GivenContext
  /\ GivenContext["user_id"] # call.context["user_id"]

====
